---- MODULE Spec2Model ----
(***************************************************************************)
(* Model of the 3D character-network viewer (src/index.js and its older    *)
(* variant src/unnamed/part_000): the data load, the force-directed layout *)
(* and the pointer-hover handling.                                         *)
(*                                                                         *)
(* JavaScript numbers are modelled as a small binary floating-point format:*)
(* an integer n stands for the number n / Scale, 1 / Scale is the spacing  *)
(* of the smallest numbers, and every result of + - * / and sqrt is rounded*)
(* to Precision significant bits, to nearest, ties to even.  NaN and the   *)
(* two infinities are separate values with the IEEE-754 rules.  A finite   *)
(* number must stay below 2^31 / Scale in magnitude: overflow of a finite  *)
(* double to Infinity is outside the bounds of the model.                  *)
(***************************************************************************)
EXTENDS Integers, Sequences, FiniteSets, TLC

(* ------------------------------ bounds -------------------------------- *)
MaxNodes == 2
MaxEdges == 1
MaxSeed == 1
MaxFrames == 1
MaxLayoutNodes == 3

Scale == 100
Precision == 7

(* --------------------------- JS numbers ------------------------------- *)
NaN == 0 - 2000000000
PosInf == 2000000001
NegInf == 0 - 2000000001

IsNaN(a) == a = NaN
IsInf(a) == a = PosInf \/ a = NegInf
IsFinite(a) == ~IsNaN(a) /\ ~IsInf(a)

Sign(a) == IF a > 0 THEN 1 ELSE IF a < 0 THEN 0 - 1 ELSE 0
Abs(a) == IF a < 0 THEN 0 - a ELSE a
InfOf(s) == IF s > 0 THEN PosInf ELSE NegInf
Neg(a) == IF IsNaN(a) THEN NaN ELSE IF IsInf(a) THEN InfOf(0 - Sign(a)) ELSE 0 - a

\* integer quotient rounded toward zero
Quot(a, b) == Sign(a) * Sign(b) * (Abs(a) \div Abs(b))

\* the distance between neighbouring numbers of the format at magnitude a >= 0:
\* the least power of two q >= q0 with a < q * 2^Precision
RECURSIVE Spacing(_, _)
Spacing(a, q) == IF a \div (2 ^ Precision) < q THEN q ELSE Spacing(a, 2 * q)

\* the number of the format nearest to the finite n, ties to the even significand
Round(n) ==
    LET a == Abs(n)
        q == Spacing(a, 1)
        below == a - (a % q)
        up == \/ 2 * (a % q) > q
              \/ 2 * (a % q) = q /\ (below \div q) % 2 = 1
    IN  Sign(n) * (IF up THEN below + q ELSE below)

Add(a, b) ==
    IF IsNaN(a) \/ IsNaN(b) THEN NaN
    ELSE IF IsInf(a) /\ IsInf(b) THEN (IF a = b THEN a ELSE NaN)
    ELSE IF IsInf(a) THEN a
    ELSE IF IsInf(b) THEN b
    ELSE Round(a + b)

Sub(a, b) == Add(a, Neg(b))

\* (a * b) \div Scale for a, b >= 0, computed in parts so that only a result out
\* of range overflows
MulAbs(a, b) ==
    LET hi == IF a >= b THEN a ELSE b
        lo == IF a >= b THEN b ELSE a
    IN  (hi \div Scale) * lo + ((hi % Scale) * lo) \div Scale

\* (a * Scale) \div b for a >= 0, b > 0, computed in parts likewise
DivAbs(a, b) == (a \div b) * Scale + ((a % b) * Scale) \div b

Mul(a, b) ==
    IF IsNaN(a) \/ IsNaN(b) THEN NaN
    ELSE IF IsInf(a) \/ IsInf(b)
         THEN (IF a = 0 \/ b = 0 THEN NaN ELSE InfOf(Sign(a) * Sign(b)))
    ELSE Round(Sign(a) * Sign(b) * MulAbs(Abs(a), Abs(b)))

Div(a, b) ==
    IF IsNaN(a) \/ IsNaN(b) THEN NaN
    ELSE IF IsInf(a) THEN (IF IsInf(b) THEN NaN
                           ELSE InfOf(Sign(a) * (IF b < 0 THEN 0 - 1 ELSE 1)))
    ELSE IF IsInf(b) THEN 0
    ELSE IF b = 0 THEN (IF a = 0 THEN NaN ELSE InfOf(Sign(a)))
    ELSE Round(Sign(a) * Sign(b) * DivAbs(Abs(a), Abs(b)))

RECURSIVE SqrtIter(_, _, _)
SqrtIter(n, lo, hi) ==
    IF lo >= hi THEN lo
    ELSE LET mid == (lo + hi + 1) \div 2
         IN  IF mid * mid <= n THEN SqrtIter(n, mid, hi)
             ELSE SqrtIter(n, lo, mid - 1)

\* the square root of a >= 0 in units of 1 / Scale, rounded down; a number too
\* large for a * Scale is halved in its root first
RECURSIVE SqrtAbs(_)
SqrtAbs(a) ==
    IF a <= 2147483647 \div Scale THEN SqrtIter(a * Scale, 0, 46340)
    ELSE 2 * SqrtAbs(a \div 4)

\* Math.sqrt
Sqrt(a) ==
    IF IsNaN(a) \/ a = NegInf \/ (IsFinite(a) /\ a < 0) THEN NaN
    ELSE IF a = PosInf THEN PosInf
    ELSE Round(SqrtAbs(a))

(* ------------------------------ dataset ------------------------------- *)
\* the node records a dataset is made of, in load order
NodePool == << [name |-> "A", group |-> 0],
               [name |-> "B", group |-> 11],
               [name |-> "C", group |-> 1],
               [name |-> "D", group |-> 16] >>

RECURSIVE SeqsUpTo(_, _)
SeqsUpTo(S, n) ==
    IF n = 0 THEN { <<>> }
    ELSE LET shorter == SeqsUpTo(S, n - 1)
         IN  shorter \cup { Append(q, e) : q \in shorter, e \in S }

\* a parsed miserables.json: n nodes, links whose ends are in 0..n; the index n
\* is the one that names no node
LinksOf(n) == SeqsUpTo([source : 0..n, target : 0..n], MaxEdges)

Datasets ==
    UNION { { [nodes |-> SubSeq(NodePool, 1, n), links |-> l] : l \in LinksOf(n) }
            : n \in 1..MaxNodes }

\* Math.random(): the k-th draw (k = 0, 1, ...) of the generator started at seed
RandomLevels == << 12, 37, 62, 87 >>
random(seed, k) == RandomLevels[((seed * (k + 1)) % Len(RandomLevels)) + 1]

(* --------------------------- force layout ----------------------------- *)
iterations == 300
repulsionStrength == 1000 * Scale
attractionStrength == Scale \div 10
damping == (9 * Scale) \div 10
epsilon == Scale \div 10

\* variant of InitNode that numbers the nodes from 1
InitNode_OneBased(node, i, seed) ==
    [name |-> node.name, group |-> node.group, id |-> i + 1,
     x |-> Mul(Sub(random(seed, 3 * i), Scale \div 2), 40 * Scale),
     y |-> Mul(Sub(random(seed, 3 * i + 1), Scale \div 2), 40 * Scale),
     z |-> Mul(Sub(random(seed, 3 * i + 2), Scale \div 2), 40 * Scale),
     vx |-> 0, vy |-> 0, vz |-> 0]

\* loadNetworkData: nodes.forEach((node, i) => ...)
InitNode(node, i, seed) ==
    [name |-> node.name, group |-> node.group, id |-> i,
     x |-> Mul(Sub(random(seed, 3 * i), Scale \div 2), 40 * Scale),
     y |-> Mul(Sub(random(seed, 3 * i + 1), Scale \div 2), 40 * Scale),
     z |-> Mul(Sub(random(seed, 3 * i + 2), Scale \div 2), 40 * Scale),
     vx |-> 0, vy |-> 0, vz |-> 0]

\* the node sequence with f applied to its elements k, k + 1, ... in order
RECURSIVE InitFrom(_, _, _)
InitFrom(ns, k, seed) ==
    IF k > Len(ns) THEN ns
    ELSE InitFrom([ns EXCEPT ![k] = InitNode(ns[k], k - 1, seed)], k + 1, seed)

InitNodes(ns, seed) == InitFrom(ns, 1, seed)

\* variant of ResetNode that zeroes the accumulators only where they do not exist yet
ResetNode_FirstTimeOnly(node) ==
    IF "fx" \in DOMAIN node THEN node
    ELSE [name |-> node.name, group |-> node.group, id |-> node.id,
          x |-> node.x, y |-> node.y, z |-> node.z,
          vx |-> node.vx, vy |-> node.vy, vz |-> node.vz,
          fx |-> 0, fy |-> 0, fz |-> 0]

\* Reset forces
ResetNode(node) ==
    [name |-> node.name, group |-> node.group, id |-> node.id,
     x |-> node.x, y |-> node.y, z |-> node.z,
     vx |-> node.vx, vy |-> node.vy, vz |-> node.vz,
     fx |-> 0, fy |-> 0, fz |-> 0]

RECURSIVE ResetFrom(_, _)
ResetFrom(ns, k) ==
    IF k > Len(ns) THEN ns ELSE ResetFrom([ns EXCEPT ![k] = ResetNode(ns[k])], k + 1)

ResetForces(ns) == ResetFrom(ns, 1)

\* node a gets += (fx, fy, fz), then node b gets -= (fx, fy, fz); a and b are
\* 1-based here and may be the same node
ApplyPair(ns, a, b, fx, fy, fz) ==
    LET n1 == [ns EXCEPT ![a].fx = Add(@, fx), ![a].fy = Add(@, fy), ![a].fz = Add(@, fz)]
    IN  [n1 EXCEPT ![b].fx = Sub(@, fx), ![b].fy = Sub(@, fy), ![b].fz = Sub(@, fz)]

\* the vector (fx, fy, fz) of the repulsion between nodes i and j
RepelForce(ns, i, j) ==
    LET dx == Sub(ns[i].x, ns[j].x)
        dy == Sub(ns[i].y, ns[j].y)
        dz == Sub(ns[i].z, ns[j].z)
        distance == Add(Sqrt(Add(Add(Mul(dx, dx), Mul(dy, dy)), Mul(dz, dz))), epsilon)
        force == Div(repulsionStrength, Mul(distance, distance))
    IN  [fx |-> Mul(Div(dx, distance), force),
         fy |-> Mul(Div(dy, distance), force),
         fz |-> Mul(Div(dz, distance), force)]

RepelPair(ns, i, j) ==
    LET f == RepelForce(ns, i, j)
    IN  ApplyPair(ns, i, j, f.fx, f.fy, f.fz)

\* for (i ...) for (j = i + 1 ...): the pairs in loop order, from pair (i, j) on
RECURSIVE Repulsion(_, _, _)
Repulsion(ns, i, j) ==
    IF i > Len(ns) THEN ns
    ELSE IF j > Len(ns) THEN Repulsion(ns, i + 1, i + 2)
    ELSE Repulsion(RepelPair(ns, i, j), i, j + 1)

\* one edge of the attraction step; source and target are 1-based here
\* the distance the attraction step computes for the edge from s to t
EdgeLength(ns, s, t) ==
    LET dx == Sub(ns[t].x, ns[s].x)
        dy == Sub(ns[t].y, ns[s].y)
        dz == Sub(ns[t].z, ns[s].z)
    IN  Sqrt(Add(Add(Mul(dx, dx), Mul(dy, dy)), Mul(dz, dz)))

\* the vector (fx, fy, fz) of the attraction along the edge from s to t
AttractForce(ns, s, t) ==
    LET dx == Sub(ns[t].x, ns[s].x)
        dy == Sub(ns[t].y, ns[s].y)
        dz == Sub(ns[t].z, ns[s].z)
        distance == EdgeLength(ns, s, t)
        force == Mul(attractionStrength, distance)
    IN  [fx |-> Mul(Div(dx, distance), force),
         fy |-> Mul(Div(dy, distance), force),
         fz |-> Mul(Div(dz, distance), force)]

AttractEdge(ns, s, t) ==
    LET f == AttractForce(ns, s, t)
    IN  ApplyPair(ns, s, t, f.fx, f.fy, f.fz)

\* edges.forEach from edge k on; nodes[edge.source] is undefined for an index
\* that names no node, and reading .x of undefined throws a TypeError
RECURSIVE Attraction(_, _, _)
Attraction(ns, es, k) ==
    IF k > Len(es) THEN [nodes |-> ns, threw |-> FALSE]
    ELSE IF es[k].source \notin 0..(Len(ns) - 1) \/ es[k].target \notin 0..(Len(ns) - 1)
         THEN [nodes |-> ns, threw |-> TRUE]
    ELSE Attraction(AttractEdge(ns, es[k].source + 1, es[k].target + 1), es, k + 1)

\* Update positions
IntegrateNode(node) ==
    LET vx == Mul(Add(node.vx, node.fx), damping)
        vy == Mul(Add(node.vy, node.fy), damping)
        vz == Mul(Add(node.vz, node.fz), damping)
    IN  [node EXCEPT !.vx = vx, !.vy = vy, !.vz = vz,
                     !.x = Add(@, vx), !.y = Add(@, vy), !.z = Add(@, vz)]

RECURSIVE IntegrateFrom(_, _)
IntegrateFrom(ns, k) ==
    IF k > Len(ns) THEN ns
    ELSE IntegrateFrom([ns EXCEPT ![k] = IntegrateNode(ns[k])], k + 1)

Integrate(ns) == IntegrateFrom(ns, 1)

\* variant of LoopStep with a convergence test: the loop is left as soon as an
\* iteration finds every force zero
LoopStep_StopWhenStill(st, es) ==
    IF st.threw \/ ~(st.iter < iterations) THEN st
    ELSE LET att == Attraction(Repulsion(ResetForces(st.nodes), 1, 2), es, 1)
         IN  IF att.threw THEN [nodes |-> att.nodes, iter |-> st.iter, threw |-> TRUE]
             ELSE IF \A k \in DOMAIN att.nodes :
                        att.nodes[k].fx = 0 /\ att.nodes[k].fy = 0 /\ att.nodes[k].fz = 0
                  THEN [nodes |-> att.nodes, iter |-> st.iter, threw |-> FALSE]
             ELSE [nodes |-> Integrate(att.nodes), iter |-> st.iter + 1, threw |-> FALSE]

\* one pass of `for (iter = 0; iter < iterations; iter++) { ... }` from the
\* loop state st: the test, the body and the increment.  Once the test has failed,
\* or the body has thrown, the loop is over and st stays as it is.
LoopStep(st, es) ==
    IF st.threw \/ ~(st.iter < iterations) THEN st
    ELSE LET att == Attraction(Repulsion(ResetForces(st.nodes), 1, 2), es, 1)
         IN  IF att.threw THEN [nodes |-> att.nodes, iter |-> st.iter, threw |-> TRUE]
             ELSE [nodes |-> Integrate(att.nodes), iter |-> st.iter + 1, threw |-> FALSE]

\* n passes of the loop, evaluated in two halves; nothing is left to run once
\* the body has thrown
RECURSIVE LoopPasses(_, _, _)
LoopPasses(st, es, n) ==
    IF n = 0 THEN st
    ELSE IF n = 1 THEN LoopStep(st, es)
    ELSE LET half == LoopPasses(st, es, n \div 2)
         IN  IF half.threw THEN half ELSE LoopPasses(half, es, n - (n \div 2))

\* the loop runs until its test fails, which LoopFuel passes always reach
LoopFuel == 2 * iterations

applyForceLayout(ns, es) ==
    LoopPasses([nodes |-> ns, iter |-> 0, threw |-> FALSE], es, LoopFuel)

(* --------------------------- presentation ----------------------------- *)
\* the two front ends: src/index.js and src/unnamed/part_000
Variants == { "index", "part_000" }

groupColors(variant) ==
    IF variant = "index"
    THEN << 30932, 1080336, 16730955, 16759040, 6040977, 48370, 4817413, 13710392,
            13258768, 8873144, 230279, 9328174, 5667955, 4745617, 7622057 >>
    ELSE << 4456788, 4728695, 4147850, 3237774, 2524047,
            2071946, 7130714, 11984427, 16705573, 16639781 >>

White == 16777215

\* groupColors[node.group % groupColors.length]
GroupColor(variant, group) ==
    groupColors(variant)[(group % Len(groupColors(variant))) + 1]

\* one 8-bit channel of Color.lerp(white, 0.3) read back by getHex()
LerpChannel(c) == (10 * c + 3 * (255 - c) + 5) \div 10

\* new THREE.Color(hex).lerp(new THREE.Color(0xffffff), 0.3).getHex()
LighterColor(hex) ==
    LerpChannel(hex \div 65536) * 65536
    + LerpChannel((hex \div 256) % 256) * 256
    + LerpChannel(hex % 256)

HighlightColor(variant, originalColor) ==
    IF variant = "index" THEN LighterColor(originalColor) ELSE White

HighlightScale(variant) == IF variant = "index" THEN (13 * Scale) \div 10 ELSE (15 * Scale) \div 10

TooltipOffsetX(variant) == IF variant = "index" THEN 15 ELSE 10
TooltipOffsetY == 10

\* edges.forEach(edge => ... new THREE.Line ...), from edge k on
RECURSIVE EdgeLines(_, _, _)
EdgeLines(ns, es, k) ==
    IF k > Len(es) THEN << >>
    ELSE LET source == ns[es[k].source + 1]
             target == ns[es[k].target + 1]
         IN  << [positions |-> << source.x, source.y, source.z,
                                  target.x, target.y, target.z >>] >>
             \o EdgeLines(ns, es, k + 1)

\* the sphere built for one node
Sphere(variant, node) ==
    LET color == GroupColor(variant, node.group)
    IN  [position |-> << node.x, node.y, node.z >>,
         color |-> color,
         scale |-> Scale,
         userData |-> [name |-> node.name, group |-> node.group,
                       originalColor |-> color, originalScale |-> Scale]]

RECURSIVE Spheres(_, _, _)
Spheres(variant, ns, k) ==
    IF k > Len(ns) THEN << >>
    ELSE << Sphere(variant, ns[k]) >> \o Spheres(variant, ns, k + 1)

createNetworkVisualization(variant, ns, es) ==
    [edgeObjects |-> EdgeLines(ns, es, 1), nodeObjects |-> Spheres(variant, ns, 1)]

(* ------------------------------ picking ------------------------------- *)
\* ray parameters at which a ray can meet a body; 0 stands for a miss.  hits[k]
\* is the ray parameter for body k of nodeObjects, the only objects handed to the
\* raycaster.
RayParams == { 5 * Scale, 10 * Scale }

\* the intersections in the order the bodies are tested
RECURSIVE RawHits(_, _)
RawHits(hits, k) ==
    IF k > Len(hits) THEN << >>
    ELSE (IF hits[k] = 0 THEN << >> ELSE << [distance |-> hits[k], object |-> k] >>)
         \o RawHits(hits, k + 1)

RECURSIVE InsertAscending(_, _)
InsertAscending(sorted, e) ==
    IF sorted = << >> THEN << e >>
    ELSE IF Head(sorted).distance <= e.distance
         THEN << Head(sorted) >> \o InsertAscending(Tail(sorted), e)
         ELSE << e >> \o sorted

RECURSIVE SortAscending(_, _)
SortAscending(done, rest) ==
    IF rest = << >> THEN done
    ELSE SortAscending(InsertAscending(done, Head(rest)), Tail(rest))

\* variant of intersectObjects that returns the bodies in the order they are tested
intersectObjects_Unsorted(hits) == RawHits(hits, 1)

\* raycaster.intersectObjects(nodeObjects): the bodies the ray meets, nearest first
intersectObjects(hits) == SortAscending(<< >>, RawHits(hits, 1))

(* ------------------------------- hover -------------------------------- *)
\* the part of the state onMouseMove works on:
\*   h = [nodeObjects, hoveredNode, tooltip, cursor, ops]
\* hoveredNode is 0 for null, else the index of the body in nodeObjects;
\* ops lists the highlight writes of the event in order

\* variant of ResetPrevious that forgets the body it leaves
ResetPrevious_NoRevert(h) ==
    IF h.hoveredNode # 0
    THEN [h EXCEPT !.hoveredNode = 0, !.tooltip.display = "none",
                   !.ops = Append(@, [op |-> "revert", body |-> h.hoveredNode])]
    ELSE h

\* variant of ResetPrevious that restores a fixed default look, not the stored one
ResetPrevious_DefaultColor(h) ==
    IF h.hoveredNode # 0
    THEN LET a == h.hoveredNode
         IN  [h EXCEPT !.nodeObjects[a].color = 30932,
                       !.nodeObjects[a].scale = Scale,
                       !.hoveredNode = 0,
                       !.tooltip.display = "none",
                       !.ops = Append(@, [op |-> "revert", body |-> a])]
    ELSE h

\* variant of ResetPrevious that leaves the tooltip on screen
ResetPrevious_KeepTooltip(h) ==
    IF h.hoveredNode # 0
    THEN LET a == h.hoveredNode
         IN  [h EXCEPT !.nodeObjects[a].color = h.nodeObjects[a].userData.originalColor,
                       !.nodeObjects[a].scale = h.nodeObjects[a].userData.originalScale,
                       !.hoveredNode = 0,
                       !.ops = Append(@, [op |-> "revert", body |-> a])]
    ELSE h

\* Reset previous hover state
ResetPrevious(h) ==
    IF h.hoveredNode # 0
    THEN LET a == h.hoveredNode
         IN  [h EXCEPT !.nodeObjects[a].color = h.nodeObjects[a].userData.originalColor,
                       !.nodeObjects[a].scale = h.nodeObjects[a].userData.originalScale,
                       !.hoveredNode = 0,
                       !.tooltip.display = "none",
                       !.ops = Append(@, [op |-> "revert", body |-> a])]
    ELSE h

\* variant of HandleNewHover that leaves the cursor alone when nothing is picked
HandleNewHover_KeepCursor(variant, h, intersects, event) ==
    IF Len(intersects) > 0
    THEN LET b == intersects[1].object
         IN  [h EXCEPT !.hoveredNode = b,
                       !.nodeObjects[b].color =
                            HighlightColor(variant, h.nodeObjects[b].userData.originalColor),
                       !.nodeObjects[b].scale = HighlightScale(variant),
                       !.tooltip = [display |-> "block",
                                    innerHTML |-> << h.nodeObjects[b].userData.name,
                                                     h.nodeObjects[b].userData.group >>,
                                    left |-> event.clientX + TooltipOffsetX(variant),
                                    top |-> event.clientY - TooltipOffsetY],
                       !.cursor = "pointer",
                       !.ops = Append(@, [op |-> "apply", body |-> b])]
    ELSE h

\* variant of HandleNewHover that shows the tooltip where it was last placed
HandleNewHover_KeepPosition(variant, h, intersects, event) ==
    IF Len(intersects) > 0
    THEN LET b == intersects[1].object
         IN  [h EXCEPT !.hoveredNode = b,
                       !.nodeObjects[b].color =
                            HighlightColor(variant, h.nodeObjects[b].userData.originalColor),
                       !.nodeObjects[b].scale = HighlightScale(variant),
                       !.tooltip.display = "block",
                       !.tooltip.innerHTML = << h.nodeObjects[b].userData.name,
                                                h.nodeObjects[b].userData.group >>,
                       !.cursor = "pointer",
                       !.ops = Append(@, [op |-> "apply", body |-> b])]
    ELSE [h EXCEPT !.cursor = "default"]

\* Handle new hover
HandleNewHover(variant, h, intersects, event) ==
    IF Len(intersects) > 0
    THEN LET b == intersects[1].object
         IN  [h EXCEPT !.hoveredNode = b,
                       !.nodeObjects[b].color =
                            HighlightColor(variant, h.nodeObjects[b].userData.originalColor),
                       !.nodeObjects[b].scale = HighlightScale(variant),
                       !.tooltip = [display |-> "block",
                                    innerHTML |-> << h.nodeObjects[b].userData.name,
                                                     h.nodeObjects[b].userData.group >>,
                                    left |-> event.clientX + TooltipOffsetX(variant),
                                    top |-> event.clientY - TooltipOffsetY],
                       !.cursor = "pointer",
                       !.ops = Append(@, [op |-> "apply", body |-> b])]
    ELSE [h EXCEPT !.cursor = "default"]

\* variant of HoverStep that does nothing to a body that is picked again
HoverStep_SkipSame(variant, h, intersects, event) ==
    IF Len(intersects) > 0 /\ intersects[1].object = h.hoveredNode
    THEN h
    ELSE HandleNewHover(variant, ResetPrevious(h), intersects, event)

\* the body of onMouseMove after the raycast
HoverStep(variant, h, intersects, event) ==
    HandleNewHover(variant, ResetPrevious(h), intersects, event)

(* --------------------------- environment ------------------------------ *)
WindowSizes == { [innerWidth |-> 800, innerHeight |-> 600],
                 [innerWidth |-> 400, innerHeight |-> 300] }

Pointers == { [clientX |-> 100, clientY |-> 200], [clientX |-> 400, clientY |-> 50] }

Px(n) == n * Scale

\* a * (num / den), for a decimal literal num / den
Times(a, num, den) == IF IsFinite(a) THEN Quot(a * num, den) ELSE a

\* mouse.x, mouse.y
MouseNDC(event, win) ==
    [x |-> Sub(Mul(Div(Px(event.clientX), Px(win.innerWidth)), 2 * Scale), Scale),
     y |-> Add(Neg(Mul(Div(Px(event.clientY), Px(win.innerHeight)), 2 * Scale)), Scale)]

\* part_000 only: mouseX, mouseY, targetRotationX, targetRotationY
RotationTargets(rot, event, win) ==
    LET mouseX == Sub(Px(event.clientX), Div(Px(win.innerWidth), 2 * Scale))
        mouseY == Sub(Px(event.clientY), Div(Px(win.innerHeight), 2 * Scale))
    IN  [rot EXCEPT !.mouseX = mouseX, !.mouseY = mouseY,
                    !.targetRotationX = Times(mouseY, 2, 1000),
                    !.targetRotationY = Times(mouseX, 2, 1000)]

\* part_000 only: the smooth rotation of animate()
SmoothRotation(rot) ==
    [rot EXCEPT !.rotationX = Add(@, Times(Sub(rot.targetRotationX, @), 5, 100)),
                !.rotationY = Add(@, Times(Sub(rot.targetRotationY, @), 5, 100))]

AnimateRotation(variant, rot) == IF variant = "part_000" THEN SmoothRotation(rot) ELSE rot

\* every dataset and seed with the layout the load computes from it
Layouts ==
    { [data |-> d, seed |-> s,
       result |-> applyForceLayout(InitNodes(d.nodes, s), d.links)]
      : d \in Datasets, s \in 0..MaxSeed }

(* ------------------------------- state -------------------------------- *)
VARIABLES
    variant,      \* which front end runs
    pc,           \* "fetching", then "loaded" or "failed"
    nodes, edges, \* the module's graph
    iter,         \* the layout loop's counter when applyForceLayout was left
    nodeObjects, edgeObjects,
    hoveredNode, tooltip, cursor,
    mouse, window, camera, renderer,
    rotation,     \* part_000: mouse rotation state; scene.rotation is rotationX/Y
    frames,       \* calls of animate() so far
    last          \* the latest pointer-move event: its coordinates, the ray parameter
                  \* at which the ray met each body (0: missed), the body hovered
                  \* before it, and the highlight writes it made

vars == << variant, pc, nodes, edges, iter, nodeObjects, edgeObjects, hoveredNode,
           tooltip, cursor, mouse, window, camera, renderer, rotation, frames, last >>

graphVars == << nodes, edges, iter, nodeObjects, edgeObjects >>
hoverVars == << hoveredNode, tooltip, cursor, last >>

Aspect(win) == Div(Px(win.innerWidth), Px(win.innerHeight))

Init ==
    /\ variant \in Variants
    /\ pc = "fetching"
    /\ nodes = << >> /\ edges = << >> /\ iter = 0
    /\ nodeObjects = << >> /\ edgeObjects = << >>
    /\ hoveredNode = 0
    /\ tooltip = [display |-> "none", innerHTML |-> << >>, left |-> 0, top |-> 0]
    /\ cursor = ""
    /\ mouse = [x |-> 0, y |-> 0]
    /\ window \in WindowSizes
    /\ camera = [aspect |-> Aspect(window)]
    /\ renderer = [width |-> window.innerWidth, height |-> window.innerHeight]
    /\ rotation = [mouseX |-> 0, mouseY |-> 0, targetRotationX |-> 0,
                   targetRotationY |-> 0, rotationX |-> 0, rotationY |-> 0]
    /\ frames = 0
    /\ last = [moved |-> FALSE, event |-> [clientX |-> 0, clientY |-> 0],
               hits |-> << >>, hoveredBefore |-> 0, ops |-> << >>]

\* loadNetworkData() once miserables.json has been fetched and parsed
LoadNetworkData ==
    /\ pc = "fetching"
    /\ \E l \in Layouts :
          LET r == l.result
              viz == createNetworkVisualization(variant, r.nodes, l.data.links)
          IN  /\ nodes' = r.nodes
              /\ edges' = l.data.links
              /\ iter' = r.iter
              /\ nodeObjects' = IF r.threw THEN nodeObjects ELSE nodeObjects \o viz.nodeObjects
              /\ edgeObjects' = IF r.threw THEN edgeObjects ELSE edgeObjects \o viz.edgeObjects
              /\ pc' = IF r.threw THEN "failed" ELSE "loaded"
    /\ UNCHANGED << variant, hoverVars, mouse, window, camera, renderer, rotation, frames >>

\* loadNetworkData() when fetch() or response.json() rejects
LoadRejected ==
    /\ pc = "fetching"
    /\ pc' = "failed"
    /\ UNCHANGED << variant, graphVars, hoverVars, mouse, window, camera, renderer,
                    rotation, frames >>

onMouseMove ==
    \E event \in Pointers, hits \in [1..Len(nodeObjects) -> {0} \cup RayParams] :
        LET intersects == intersectObjects(hits)
            h == HoverStep(variant,
                           [nodeObjects |-> nodeObjects, hoveredNode |-> hoveredNode,
                            tooltip |-> tooltip, cursor |-> cursor, ops |-> << >>],
                           intersects, event)
        IN  /\ mouse' = MouseNDC(event, window)
            /\ rotation' = IF variant = "part_000"
                           THEN RotationTargets(rotation, event, window) ELSE rotation
            /\ nodeObjects' = h.nodeObjects
            /\ hoveredNode' = h.hoveredNode
            /\ tooltip' = h.tooltip
            /\ cursor' = h.cursor
            /\ last' = [moved |-> TRUE, event |-> event, hits |-> hits,
                        hoveredBefore |-> hoveredNode, ops |-> h.ops]
            /\ UNCHANGED << variant, pc, nodes, edges, iter, edgeObjects,
                            window, camera, renderer, frames >>

\* the window is resized and onWindowResize runs
onWindowResize ==
    \E win \in WindowSizes :
        /\ window' = win
        /\ camera' = [aspect |-> Aspect(win)]
        /\ renderer' = [width |-> win.innerWidth, height |-> win.innerHeight]
        /\ UNCHANGED << variant, pc, graphVars, hoverVars, mouse, rotation, frames >>

\* a frame of animate(), which loadNetworkData().then(...) starts once the load
\* is over, whether it failed or not
animate ==
    /\ pc # "fetching"
    /\ frames < MaxFrames
    /\ frames' = frames + 1
    /\ rotation' = AnimateRotation(variant, rotation)
    /\ UNCHANGED << variant, pc, graphVars, hoverVars, mouse, window, camera, renderer >>

Next == LoadNetworkData \/ LoadRejected \/ onMouseMove \/ onWindowResize \/ animate

Spec == Init /\ [][Next]_vars

(* ---------------------- the layout, step by step ---------------------- *)
\* The same load, with the one synchronous call of applyForceLayout() taken
\* apart into the four steps of each iteration, so that the forces of every
\* iteration can be looked at.  pc says where the call stands:
\*   "loop"       at the test of the for loop
\*   "reset"      after Reset forces
\*   "repelled"   after Repulsion between all nodes
\*   "attracted"  after Attraction along edges, about to Update positions
LayoutDatasets ==
    UNION { { [nodes |-> SubSeq(NodePool, 1, n), links |-> l] : l \in LinksOf(n) }
            : n \in 1..MaxLayoutNodes }

layoutFrame == << variant, nodeObjects, edgeObjects, hoverVars, mouse, window, camera,
                  renderer, rotation, frames >>

LayoutInit ==
    /\ Init
    /\ variant = "index"
    /\ window = [innerWidth |-> 800, innerHeight |-> 600]

\* loadNetworkData() up to the call of applyForceLayout()
LayoutBegin ==
    /\ pc = "fetching"
    /\ \E d \in LayoutDatasets, seed \in 0..MaxSeed :
          /\ nodes' = InitNodes(d.nodes, seed)
          /\ edges' = d.links
    /\ iter' = 0
    /\ pc' = "loop"
    /\ UNCHANGED layoutFrame

LayoutReset ==
    /\ pc = "loop" /\ iter < iterations
    /\ nodes' = ResetForces(nodes)
    /\ pc' = "reset"
    /\ UNCHANGED << edges, iter, layoutFrame >>

LayoutRepulsion ==
    /\ pc = "reset"
    /\ nodes' = Repulsion(nodes, 1, 2)
    /\ pc' = "repelled"
    /\ UNCHANGED << edges, iter, layoutFrame >>

LayoutAttraction ==
    /\ pc = "repelled"
    /\ LET att == Attraction(nodes, edges, 1)
       IN  /\ nodes' = att.nodes
           /\ pc' = IF att.threw THEN "failed" ELSE "attracted"
    /\ UNCHANGED << edges, iter, layoutFrame >>

LayoutIntegrate ==
    /\ pc = "attracted"
    /\ nodes' = Integrate(nodes)
    /\ iter' = iter + 1
    /\ pc' = "loop"
    /\ UNCHANGED << edges, layoutFrame >>

\* the loop test fails, applyForceLayout() returns and the bodies are built
LayoutEnd ==
    /\ pc = "loop" /\ ~(iter < iterations)
    /\ LET viz == createNetworkVisualization(variant, nodes, edges)
       IN  /\ nodeObjects' = nodeObjects \o viz.nodeObjects
           /\ edgeObjects' = edgeObjects \o viz.edgeObjects
    /\ pc' = "loaded"
    /\ UNCHANGED << variant, nodes, edges, iter, hoverVars, mouse, window, camera,
                    renderer, rotation, frames >>

LayoutNext ==
    \/ LayoutBegin \/ LayoutReset \/ LayoutRepulsion \/ LayoutAttraction
    \/ LayoutIntegrate \/ LayoutEnd

SpecLayout == LayoutInit /\ [][LayoutNext]_vars
(* ------------------------------ claims -------------------------------- *)
Bodies == DOMAIN nodeObjects

\* body b shows other than its stored original color and scale
Highlighted(b) ==
    \/ nodeObjects[b].color # nodeObjects[b].userData.originalColor
    \/ nodeObjects[b].scale # nodeObjects[b].userData.originalScale

AtOriginal(b) ==
    /\ nodeObjects[b].color = nodeObjects[b].userData.originalColor
    /\ nodeObjects[b].scale = nodeObjects[b].userData.originalScale

\* the body the latest pointer-move event picked, 0 for none
Picked ==
    LET intersects == intersectObjects(last.hits)
    IN  IF Len(intersects) > 0 THEN intersects[1].object ELSE 0

\* C1: whatever pointer-move events have happened, at most one body is
\* highlighted, and a highlighted body is the one hoveredNode refers to.
C1_AtMostOneHighlighted ==
    /\ Cardinality({ b \in Bodies : Highlighted(b) }) <= 1
    /\ \A b \in Bodies : Highlighted(b) => hoveredNode = b

\* the hover has moved from one body to another, and the new one is highlighted
C1_Witness ==
    /\ last.moved /\ last.hoveredBefore # 0
    /\ hoveredNode # 0 /\ hoveredNode # last.hoveredBefore
    /\ Highlighted(hoveredNode)

\* the latest pointer-move event found body a hovered and picked a again
SamePickAgain == last.moved /\ last.hoveredBefore # 0 /\ Picked = last.hoveredBefore

C3_RevertRestoresCreationValues ==
    \A b \in Bodies :
        /\ nodeObjects[b].userData.originalColor = GroupColor(variant, nodes[b].group)
        /\ nodeObjects[b].userData.originalScale = Scale
        /\ b # hoveredNode =>
              /\ nodeObjects[b].color = GroupColor(variant, nodes[b].group)
              /\ nodeObjects[b].scale = Scale

\* a body whose group is not the palette's first has been hovered and left again
C3_Witness ==
    /\ last.moved /\ last.hoveredBefore # 0 /\ last.hoveredBefore # hoveredNode
    /\ nodes[last.hoveredBefore].group # 0
    /\ AtOriginal(last.hoveredBefore)

\* the latest pointer-move event found body a hovered and picked another body
MovedToOther ==
    last.moved /\ last.hoveredBefore # 0 /\ Picked # 0 /\ Picked # last.hoveredBefore

\* C4: an event that finds a hovered and picks another body b first reverts a,
\* then highlights b; afterwards b is hovered and the only highlighted body, and the
\* tooltip shows b's name and group at the event's pointer coordinates.
C4_MoveToOtherBody ==
    MovedToOther =>
        LET a == last.hoveredBefore
            b == Picked
        IN  /\ last.ops = << [op |-> "revert", body |-> a], [op |-> "apply", body |-> b] >>
            /\ hoveredNode = b
            /\ AtOriginal(a)
            /\ \A c \in Bodies : Highlighted(c) <=> c = b
            /\ tooltip = [display |-> "block",
                          innerHTML |-> << nodeObjects[b].userData.name,
                                           nodeObjects[b].userData.group >>,
                          left |-> last.event.clientX + TooltipOffsetX(variant),
                          top |-> last.event.clientY - TooltipOffsetY]

C4_Witness == MovedToOther /\ hoveredNode = Picked

\* C5: an event that finds a hovered and picks nothing ends idle: hoveredNode is
\* null, a is back at its stored color and scale, the tooltip is hidden and the
\* cursor is 'default'.  And a step taken while idle whose latest pick is nothing
\* changes neither the hover state, nor any body, nor the tooltip's visibility.
C5_LeaveToIdle ==
    (last.moved /\ last.hoveredBefore # 0 /\ Picked = 0) =>
        /\ hoveredNode = 0
        /\ AtOriginal(last.hoveredBefore)
        /\ tooltip.display = "none"
        /\ cursor = "default"

C5_IdleStaysIdle ==
    (hoveredNode = 0 /\ pc' = pc /\ last'.moved /\ intersectObjects(last'.hits) = << >>) =>
        /\ hoveredNode' = 0
        /\ nodeObjects' = nodeObjects
        /\ tooltip'.display = tooltip.display

C5_PickNone == [] C5_LeaveToIdle /\ [][C5_IdleStaysIdle]_vars

C5_Witness ==
    /\ last.moved /\ last.hoveredBefore # 0 /\ Picked = 0
    /\ Len(last.ops) = 1
    /\ hoveredNode = 0

\* C6 as stated: a load that fails leaves no partial graph: nodes and edges are
\* as before the load, and no body or edge line exists.
C6_NoPartialGraph ==
    pc = "failed" =>
        /\ nodes = << >> /\ edges = << >>
        /\ nodeObjects = << >> /\ edgeObjects = << >>

\* C7 as stated: after the layout of a graph whose edges all name existing nodes,
\* no node coordinate is NaN or infinite.
C7_LayoutIsFinite ==
    pc = "loaded" =>
        \A k \in DOMAIN nodes :
            IsFinite(nodes[k].x) /\ IsFinite(nodes[k].y) /\ IsFinite(nodes[k].z)

\* C8: a load of a graph with valid edges leaves the layout loop after exactly 300
\* iterations, whatever the forces were; bodies and edge lines exist only once that
\* has happened, and each is placed at its node's position after the 300th
\* iteration.
C8_FixedIterations ==
    /\ pc = "loaded" => iter = 300
    /\ (nodeObjects # << >> \/ edgeObjects # << >>) => (pc = "loaded" /\ iter = 300)
    /\ \A b \in Bodies :
          nodeObjects[b].position = << nodes[b].x, nodes[b].y, nodes[b].z >>
    /\ \A e \in DOMAIN edgeObjects :
          LET source == nodes[edges[e].source + 1]
              target == nodes[edges[e].target + 1]
          IN  edgeObjects[e].positions
                  = << source.x, source.y, source.z, target.x, target.y, target.z >>

\* two nodes joined by an edge have been laid out and built, and they have moved
\* from where they started
C8_Witness ==
    /\ pc = "loaded" /\ iter = 300
    /\ Len(nodeObjects) = 2 /\ Len(edgeObjects) = 1
    /\ nodes[1].vx # 0

\* the bodies the ray of the latest pointer-move event met
Met == { b \in DOMAIN last.hits : last.hits[b] # 0 }

\* C9: after a pointer-move event the hovered body is one the ray met, and none
\* of the bodies it met has a smaller ray parameter; if the ray met none, nothing
\* is hovered.  The hovered object is always a body of nodeObjects, never an edge
\* line.
C9_NearestPicked ==
    last.moved =>
        /\ hoveredNode \in 0..Len(nodeObjects)
        /\ Met = {} => hoveredNode = 0
        /\ Met # {} =>
              /\ hoveredNode \in Met
              /\ \A b \in Met : last.hits[hoveredNode] <= last.hits[b]

\* the ray met the first body at 10 and the second at 5: the second is hovered
C9_Witness ==
    /\ last.moved
    /\ last.hits = << 10 * Scale, 5 * Scale >>
    /\ hoveredNode = 2

C10_IdIsIndex ==
    \A k \in DOMAIN nodes : nodes[k].id = k - 1 /\ nodes[k].name = NodePool[k].name

C10_NoLaterWrite == pc # "fetching" => (nodes' = nodes /\ edges' = edges)

\* C10: each node's id is its zero-based index in the input, and once the load is
\* over no step (pointer move, resize, animation frame) changes the nodes or the
\* edge sequence.
C10_GraphFrozen == [] C10_IdIsIndex /\ [][C10_NoLaterWrite]_vars

\* after the load a body has been hovered and a frame has been drawn
C10_Witness ==
    /\ pc = "loaded" /\ Len(nodes) = 2 /\ Len(edges) = 1
    /\ hoveredNode # 0 /\ frames > 0

\* C11: once a pointer-move event has completed, the tooltip is displayed exactly
\* when hoveredNode is non-null, and the cursor is 'pointer' exactly when
\* hoveredNode is non-null and 'default' otherwise; an event that arrives while
\* nodeObjects is still empty leaves nothing hovered, the tooltip hidden and the
\* cursor 'default'.
C11_HoverOutputsAgree ==
    last.moved =>
        /\ tooltip.display \in { "block", "none" }
        /\ (tooltip.display = "block") <=> (hoveredNode # 0)
        /\ cursor \in { "pointer", "default" }
        /\ (cursor = "pointer") <=> (hoveredNode # 0)
        /\ nodeObjects = << >> => hoveredNode = 0

\* a pointer-move event has left a body for empty space: the tooltip that was
\* shown for the body is hidden again and the cursor is back to 'default'
C11_Witness ==
    /\ last.moved /\ last.hoveredBefore # 0 /\ Picked = 0
    /\ hoveredNode = 0 /\ tooltip.display = "none" /\ cursor = "default"
    /\ tooltip.innerHTML # << >>

\* sum of f[k] over k in the finite set S of integers
RECURSIVE SumOver(_, _)
SumOver(f, S) ==
    IF S = {} THEN 0
    ELSE LET k == CHOOSE x \in S : \A y \in S : x <= y
         IN  f[k] + SumOver(f, S \ {k})

NodeIds == DOMAIN nodes
NodePairs == { p \in NodeIds \X NodeIds : p[1] < p[2] }
EdgeIds == DOMAIN edges

\* the exact sums over all nodes of the three accumulators
SumFx == SumOver([k \in NodeIds |-> nodes[k].fx], NodeIds)
SumFy == SumOver([k \in NodeIds |-> nodes[k].fy], NodeIds)
SumFz == SumOver([k \in NodeIds |-> nodes[k].fz], NodeIds)

\* the case C12 is about: reset, repulsion and attraction of an iteration are
\* done and no edge has length zero, now or earlier: every position and every
\* accumulator is a finite number
Balanceable ==
    /\ pc = "attracted"
    /\ \A e \in EdgeIds : EdgeLength(nodes, edges[e].source + 1, edges[e].target + 1) # 0
    /\ \A k \in NodeIds :
          /\ IsFinite(nodes[k].x) /\ IsFinite(nodes[k].y) /\ IsFinite(nodes[k].z)
          /\ IsFinite(nodes[k].fx) /\ IsFinite(nodes[k].fy) /\ IsFinite(nodes[k].fz)

\* the forces of this iteration alone, accumulated from zeroed accumulators
FreshForces ==
    LET zeroed == [k \in NodeIds |-> [nodes[k] EXCEPT !.fx = 0, !.fy = 0, !.fz = 0]]
    IN  Attraction(Repulsion(zeroed, 1, 2), edges, 1).nodes

C12_NothingCarriedOver ==
    \A k \in NodeIds :
        /\ nodes[k].fx = FreshForces[k].fx
        /\ nodes[k].fy = FreshForces[k].fy
        /\ nodes[k].fz = FreshForces[k].fz

\* C12 as stated: at integration time of every iteration of a graph with valid
\* edges and no zero-length edge, the sums over all nodes of fx, of fy and of fz
\* are each exactly zero, and the accumulators hold this iteration's forces only.
C12_ForcesSumToZero ==
    Balanceable => (SumFx = 0 /\ SumFy = 0 /\ SumFz = 0 /\ C12_NothingCarriedOver)

\* the largest magnitude an accumulator can pass through in this iteration: the
\* magnitudes of all the vectors added or subtracted, summed per coordinate
ForceMass(c) ==
    SumOver([k \in NodeIds |->
                 SumOver([j \in NodeIds |->
                            IF k < j THEN Abs(RepelForce(nodes, k, j)[c]) ELSE 0], NodeIds)],
              NodeIds)
    + SumOver([e \in EdgeIds |->
                 Abs(AttractForce(nodes, edges[e].source + 1, edges[e].target + 1)[c])],
              EdgeIds)

\* what the roundings of one iteration's additions can add up to: one addition
\* and one subtraction per pair and per edge, each off by at most half the
\* spacing of the numbers at the magnitude reached
RoundingSlack(c) ==
    (Cardinality(NodePairs) + Cardinality(EdgeIds)) * Spacing(2 * ForceMass(c), 1)

\* C12, amended: at integration time of every iteration of a graph with valid
\* edges and no zero-length edge, the accumulators hold this iteration's forces
\* only; the sums over all nodes of fx, of fy and of fz are exactly zero when the
\* graph has at most two nodes, and for any number of nodes they differ from zero
\* by no more than the rounding of the additions.
C12_ForcesBalanceUpToRounding ==
    Balanceable =>
        /\ C12_NothingCarriedOver
        /\ Cardinality(NodeIds) <= 2 => (SumFx = 0 /\ SumFy = 0 /\ SumFz = 0)
        /\ Abs(SumFx) <= RoundingSlack("fx")
        /\ Abs(SumFy) <= RoundingSlack("fy")
        /\ Abs(SumFz) <= RoundingSlack("fz")

\* a later iteration of three nodes joined by an edge, with non-zero forces that
\* do not cancel exactly
C12_Witness ==
    /\ Balanceable /\ iter > 0
    /\ Len(nodes) = 3 /\ Len(edges) = 1
    /\ SumFx # 0
    /\ \A k \in NodeIds : nodes[k].fx # 0
====
